---- MODULE Spec2Model ----
(***************************************************************************)
(* Discord favourite GIF downloader (src/main.py).                         *)
(*                                                                         *)
(* Strings that the program takes apart (URLs, file names, paths) are      *)
(* sequences of tokens, so that urlparse, os.path.basename, os.path.       *)
(* splitext and str.endswith are computed on them as Python computes them  *)
(* on characters.  A token that starts with "." is a dot token (".gif",    *)
(* ".com"); "/" and "://" are the tokens that contain a slash; "?" and "#" *)
(* are the query and fragment delimiters.  The other tokens contain        *)
(* neither a dot, a slash, "?" nor "#".                                    *)
(*                                                                         *)
(* An Optional[T] is None == <<>> or Some(x) == <<x>>.                     *)
(***************************************************************************)
EXTENDS Integers, Sequences, FiniteSets, TLC

VARIABLES
    pc,         \* position of main(): "init", "acquire", "deserialize", ...
    run,        \* number of the current invocation of the program
    exc,        \* the uncaught exception that ended the run, "" if none
    favorites,  \* the favourites list upstream hands to manager.merge
    dataFile,   \* data.json: None, or Some(list of dicts)
    dirExists,  \* whether the directory downloads/ exists
    files,      \* downloads/: file name |-> content (the URL it was read from)
    gif_list,   \* DataManager._gif_list: None, or Some(list of dicts)
    gifs,       \* main's list of FavoritedGIF objects
    i,          \* index of the entry the download loop is at (1-based)
    requests,   \* the HTTP requests issued in this run, in order
    before,     \* _gif_list as it was when merge was last called
    incoming    \* the argument of the last merge call, as the caller built it

vars == <<pc, run, exc, favorites, dataFile, dirExists, files, gif_list, gifs,
          i, requests, before, incoming>>

----------------------------------------------------------------------------
(* Bounds *)

MaxFavorites == 2   \* length of the upstream favourites list of a run
MaxRuns == 2        \* invocations of the program in a row
MaxIncoming == 3    \* length of a list passed to merge (SpecMerge)
MaxStored == 2      \* length of the catalog merge starts from (SpecMerge)
MaxWidth == 2       \* widths 1..MaxWidth tell entries of one url apart
MaxRest == 3        \* tokens after the host of a generated URL (SpecUrl)

----------------------------------------------------------------------------
(* Python values *)

None == <<>>
Some(x) == <<x>>

InList(x, s) == \E k \in 1..Len(s) : s[k] = x

RemoveAt(s, k) == SubSeq(s, 1, k - 1) \o SubSeq(s, k + 1, Len(s))

\* str.endswith(".gif")
EndsWithGif(s) == Len(s) > 0 /\ s[Len(s)] = ".gif"

\* least index of s holding a token of S; Len(s) + 1 when there is none
FirstIndex(s, S) ==
    IF \E k \in 1..Len(s) : s[k] \in S
    THEN CHOOSE k \in 1..Len(s) : s[k] \in S /\ \A j \in 1..(k - 1) : s[j] \notin S
    ELSE Len(s) + 1

\* greatest index of s holding a token of S; 0 when there is none
LastIndex(s, S) ==
    IF \E k \in 1..Len(s) : s[k] \in S
    THEN CHOOSE k \in 1..Len(s) : s[k] \in S /\ \A j \in (k + 1)..Len(s) : s[j] \notin S
    ELSE 0

DotTokens == {".gif", ".com", ".discordapp", ".imgur", ".tenor"}

\* urllib.parse.urlparse of scheme://netloc path ?query #fragment
urlparse(u) ==
    LET afterScheme == SubSeq(u, 3, Len(u))
        n == FirstIndex(afterScheme, {"/", "?", "#"})
        rest == SubSeq(afterScheme, n, Len(afterScheme))
        f == FirstIndex(rest, {"#"})
        noFragment == SubSeq(rest, 1, f - 1)
        q == FirstIndex(noFragment, {"?"})
    IN  [scheme |-> u[1],
         netloc |-> SubSeq(afterScheme, 1, n - 1),
         path |-> SubSeq(noFragment, 1, q - 1),
         query |-> SubSeq(noFragment, q + 1, Len(noFragment)),
         fragment |-> SubSeq(rest, f + 1, Len(rest))]

\* os.path.basename: what follows the last slash
basename(p) == SubSeq(p, LastIndex(p, {"/", "://"}) + 1, Len(p))

\* os.path.splitext of a name without slash: split at the last dot, unless
\* nothing precedes it
splitext(name) ==
    LET d == LastIndex(name, DotTokens)
    IN  IF d > 1
        THEN [name |-> SubSeq(name, 1, d - 1), extension |-> SubSeq(name, d, Len(name))]
        ELSE [name |-> name, extension |-> <<>>]

\* os.path.join("downloads", file_name)
JoinDownloads(file_name) == <<"downloads", "/">> \o file_name

----------------------------------------------------------------------------
(* class FavoritedGIF *)

\* data.get("path", None)
GetPath(data) == IF "path" \in DOMAIN data THEN data.path ELSE None

\* FavoritedGIF.__init__
FavoritedGIF(data) ==
    [w |-> data.width, h |-> data.height, src |-> data.src, url |-> data.url,
     format |-> data.format, path |-> GetPath(data)]

url_host(gif) == urlparse(gif.url).netloc

sanitized_url(gif) ==
    LET url_comps == urlparse(gif.url)
    IN  IF EndsWithGif(url_comps.path)
        THEN <<url_comps.scheme, "://">> \o url_comps.netloc \o url_comps.path
        ELSE gif.url

serialize(gif) ==
    [width |-> gif.w, height |-> gif.h, src |-> gif.src, url |-> gif.url,
     format |-> gif.format, path |-> gif.path]

----------------------------------------------------------------------------
(* class DataManager *)

\* the loop of merge's first branch: enumerate(new_gif_list) with pop(i) in
\* its body.  k is the iterator's position (1-based); after a pop the
\* iterator still advances, so the element that moved into place k is
\* never looked at.
RECURSIVE DedupLoop(_, _, _)
DedupLoop(new_gif_list, k, temp_gif_urls) ==
    IF k > Len(new_gif_list) THEN new_gif_list
    ELSE IF InList(new_gif_list[k].url, temp_gif_urls)
         THEN DedupLoop(RemoveAt(new_gif_list, k), k + 1, temp_gif_urls)
         ELSE DedupLoop(new_gif_list, k + 1,
                        Append(temp_gif_urls, new_gif_list[k].url))

orig_url_list(lst) == [k \in 1..Len(lst) |-> lst[k].url]

\* whether merge's second loop skips gif: its url is in orig_url_list,
\* which was built before the loop and is not extended by it
AppendSkips_NoCheck(gif, orig) == FALSE
AppendSkips(gif, orig) == InList(gif.url, orig)

\* the loop of merge's second branch
RECURSIVE AppendLoop(_, _, _, _)
AppendLoop(lst, new_gif_list, k, orig) ==
    IF k > Len(new_gif_list) THEN lst
    ELSE IF AppendSkips(new_gif_list[k], orig)
         THEN AppendLoop(lst, new_gif_list, k + 1, orig)
         ELSE AppendLoop(Append(lst, new_gif_list[k]), new_gif_list, k + 1, orig)

\* DataManager.merge: the value of _gif_list after merge(new_gif_list)
merge(gl, new_gif_list) ==
    IF gl = None \/ Len(gl[1]) = 0
    THEN Some(DedupLoop(new_gif_list, 1, <<>>))
    ELSE Some(AppendLoop(gl[1], new_gif_list, 1, orig_url_list(gl[1])))

\* DataManager.deserialize_gifs
deserialize_gifs(gl) ==
    LET lst == IF gl = None THEN <<>> ELSE gl[1]
    IN  [k \in 1..Len(lst) |-> FavoritedGIF(lst[k])]

\* DataManager.serialize_gifs: the new value of _gif_list
serialize_gifs(gs) == Some([k \in 1..Len(gs) |-> serialize(gs[k])])

----------------------------------------------------------------------------
(* The world outside the program *)

Https(host, rest) == <<"https", "://">> \o host \o rest

TenorHost == <<"tenor", ".com">>
CdnHost == <<"cdn", ".discordapp", ".com">>
ImgurHost == <<"i", ".imgur", ".com">>
OtherHost == <<"example", ".com">>

UrlDirect == Https(ImgurHost, <<"/", "a", ".gif">>)
UrlTenor == Https(TenorHost, <<"/", "view", "/", "a">>)
UrlCdn == Https(CdnHost, <<"/", "a", ".gif", "?", "ex">>)
UrlOther == Https(OtherHost, <<"/", "p">>)

Urls == {UrlDirect, UrlTenor, UrlCdn, UrlOther}

\* what a tenor page's contentUrl meta tag can hold
TenorContentUrls == {Https(<<"media", ".tenor", ".com">>, <<"/", "a", ".gif">>)}

\* a record as upstream hands it over (ProtoSettingsReader.get_favorite_gifs)
Entry(u, w) ==
    [width |-> w, height |-> 1, src |-> "preview", url |-> u, format |-> "IMAGE"]

RECURSIVE SeqsUpTo(_, _)
SeqsUpTo(S, n) ==
    IF n = 0 THEN {<<>>}
    ELSE LET shorter == SeqsUpTo(S, n - 1)
         IN  shorter \cup {Append(s, x) : s \in {t \in shorter : Len(t) = n - 1}, x \in S}

\* files a user may already have in downloads/
PreexistingNames == {<<"a", ".gif">>, <<"a", "-1", ".gif">>}

OldContent == <<"old">>
PartialContent == <<"partial">>

----------------------------------------------------------------------------
(* FavoritedGIF._download_generic *)

\* os.path.exists(file_path) for a path inside downloads/, the directory
\* being there: "downloads/" itself, or a file of the directory
Exists(fs, file_path) ==
    Len(file_path) = 2 \/ SubSeq(file_path, 3, Len(file_path)) \in DOMAIN fs

\* the while loop that looks for an unused path
RECURSIVE FreePath(_, _, _, _, _)
FreePath(fs, file_path, name, extension, k) ==
    IF Exists(fs, file_path)
    THEN FreePath(fs, JoinDownloads(name \o <<"-" \o ToString(k)>> \o extension),
                  name, extension, k + 1)
    ELSE file_path

\* the path _download_generic(url) writes to
TargetPath_NoLoop(fs, url) == JoinDownloads(basename(url))
TargetPath(fs, url) ==
    LET file_name == basename(url)
        parts == splitext(file_name)
    IN  FreePath(fs, JoinDownloads(file_name), parts.name, parts.extension, 1)

WriteFile(fs, file_path, content) ==
    LET n == SubSeq(file_path, 3, Len(file_path))
    IN  [m \in DOMAIN fs \cup {n} |-> IF m = n THEN content ELSE fs[m]]

\* requests.get(url), by the method that calls it
Get(url, by) == [method |-> "GET", url |-> url, by |-> by]

\* an uncaught exception: the traceback ends the run
Raise(e) == pc' = "crashed" /\ exc' = e

\* _download_generic(url) on gifs[i], reqs being the requests issued so far.
\* requests.get raises, or the write fails after open() created the file,
\* or both succeed and self.path is set.
DownloadGeneric(url, reqs) ==
    LET file_path == TargetPath(files, url)
    IN  /\ dirExists' = TRUE
        /\ requests' = Append(reqs, Get(url, "_download_generic"))
        /\ \/ /\ Raise("ConnectionError")
              /\ UNCHANGED <<files, gifs, i>>
           \/ /\ Raise("OSError")
              /\ files' = WriteFile(files, file_path, PartialContent)
              /\ UNCHANGED <<gifs, i>>
           \/ /\ files' = WriteFile(files, file_path, url)
              /\ gifs' = [gifs EXCEPT ![i].path = Some(file_path)]
              /\ i' = i + 1
              /\ UNCHANGED <<pc, exc>>

----------------------------------------------------------------------------
(* FavoritedGIF.download, one iteration of main's loop over gifs *)

\* line 85: the entry has been downloaded before
AlreadyDownloaded_Never(gif) == FALSE
AlreadyDownloaded(gif) == gif.path # None

\* line 89: the test that sends the entry to _download_generic directly
LooksLikePlainFile(gif) == EndsWithGif(sanitized_url(gif))

\* line 93
IsTenor(gif) == url_host(gif) = TenorHost

Skip == i' = i + 1 /\ UNCHANGED <<pc, exc, dirExists, files, gifs, requests>>

Download ==
    /\ pc = "download" /\ i <= Len(gifs)
    /\ LET gif == gifs[i]
       IN  IF AlreadyDownloaded(gif) THEN Skip
           ELSE IF LooksLikePlainFile(gif)
                THEN DownloadGeneric(sanitized_url(gif), requests)
           ELSE IF IsTenor(gif)
                THEN \* _extract_tenor_url(self.sanitized_url)
                     \/ /\ Raise("ConnectionError")
                        /\ requests' = Append(requests, Get(sanitized_url(gif), "_extract_tenor_url"))
                        /\ UNCHANGED <<dirExists, files, gifs, i>>
                     \/ /\ Raise("KeyError")   \* a contentUrl tag without content
                        /\ requests' = Append(requests, Get(sanitized_url(gif), "_extract_tenor_url"))
                        /\ UNCHANGED <<dirExists, files, gifs, i>>
                     \/ /\ requests' = Append(requests, Get(sanitized_url(gif), "_extract_tenor_url"))
                        /\ UNCHANGED <<pc, exc, dirExists, files, gifs>>
                        /\ i' = i + 1   \* no contentUrl tag: returns None
                     \/ \E url \in TenorContentUrls :
                            DownloadGeneric(url, Append(requests, Get(sanitized_url(gif), "_extract_tenor_url")))
           ELSE Skip   \* [UNSUPPORTED URL]
    /\ UNCHANGED <<run, favorites, dataFile, gif_list, before, incoming>>

----------------------------------------------------------------------------
(* main *)

\* manager = DataManager(): load()
Load ==
    /\ pc = "init"
    /\ gif_list' = IF dataFile = None THEN Some(<<>>) ELSE dataFile
    /\ pc' = "acquire"
    /\ UNCHANGED <<run, exc, favorites, dataFile, dirExists, files, gifs, i,
                   requests, before, incoming>>

\* manager.merge(...) with the favourites read from localstorage or the API
MergeFavorites ==
    /\ pc = "acquire"
    /\ gif_list' = merge(gif_list, favorites)
    /\ before' = gif_list
    /\ incoming' = Some(favorites)
    /\ pc' = "deserialize"
    /\ UNCHANGED <<run, exc, favorites, dataFile, dirExists, files, gifs, i, requests>>

\* --localstorage and no entry with userContextId=1: merge is not called
NoFavorites ==
    /\ pc = "acquire"
    /\ pc' = "deserialize"
    /\ UNCHANGED <<run, exc, favorites, dataFile, dirExists, files, gif_list, gifs,
                   i, requests, before, incoming>>

\* the API answers without "settings": RuntimeError
ApiError ==
    /\ pc = "acquire"
    /\ Raise("RuntimeError")
    /\ UNCHANGED <<run, favorites, dataFile, dirExists, files, gif_list, gifs, i,
                   requests, before, incoming>>

\* gifs = manager.deserialize_gifs(); exit(2) when there are none
Deserialize ==
    /\ pc = "deserialize"
    /\ gifs' = deserialize_gifs(gif_list)
    /\ IF Len(gifs') = 0 THEN pc' = "exit2" /\ i' = 0
                         ELSE pc' = "download" /\ i' = 1
    /\ UNCHANGED <<run, exc, favorites, dataFile, dirExists, files, gif_list,
                   requests, before, incoming>>

\* manager.serialize_gifs(gifs); manager.save()
Save ==
    /\ pc = "download" /\ i > Len(gifs)
    /\ gif_list' = serialize_gifs(gifs)
    /\ dataFile' = gif_list'
    /\ pc' = "done"
    /\ UNCHANGED <<run, exc, favorites, dirExists, files, gifs, i, requests,
                   before, incoming>>

Terminal == {"done", "crashed", "exit2"}

\* upstream between two runs: unchanged, one favourite added, or the
\* oldest one removed
FavoritesAfter(favs) ==
    {favs}
    \cup (IF Len(favs) < MaxFavorites
          THEN {Append(favs, Entry(u, 1)) : u \in Urls}
          ELSE {})
    \cup (IF Len(favs) > 0 THEN {Tail(favs)} ELSE {})

\* the program is started again; the files stay, the memory does not
NextRun ==
    /\ pc \in Terminal /\ run < MaxRuns
    /\ run' = run + 1
    /\ pc' = "init" /\ exc' = ""
    /\ gif_list' = None /\ gifs' = <<>> /\ i' = 0 /\ requests' = <<>>
    /\ before' = None /\ incoming' = None
    /\ favorites' \in FavoritesAfter(favorites)
    /\ UNCHANGED <<dataFile, dirExists, files>>

Init ==
    /\ pc = "init" /\ run = 1 /\ exc = ""
    /\ favorites \in SeqsUpTo({Entry(u, 1) : u \in Urls}, MaxFavorites)
    /\ dataFile = None
    /\ \/ dirExists = FALSE /\ files = <<>>
       \/ dirExists = TRUE /\ \E S \in SUBSET PreexistingNames :
                                   files = [n \in S |-> OldContent]
    /\ gif_list = None /\ gifs = <<>> /\ i = 0 /\ requests = <<>>
    /\ before = None /\ incoming = None

Next ==
    \/ Load
    \/ MergeFavorites
    \/ NoFavorites
    \/ ApiError
    \/ Deserialize
    \/ Download
    \/ Save
    \/ NextRun

Spec == Init /\ [][Next]_vars

----------------------------------------------------------------------------
(* DataManager.merge on its own: any catalog, any incoming list *)

MergeUrls == {UrlDirect, UrlTenor}

\* a record of data.json as this program writes it (FavoritedGIF.serialize)
Stored(u, p) ==
    [width |-> 1, height |-> 1, src |-> "preview", url |-> u, format |-> "IMAGE",
     path |-> p]

HasDistinctUrls(lst) ==
    \A j, k \in 1..Len(lst) : j # k => lst[j].url # lst[k].url

PathsOf(u) == {None, Some(JoinDownloads(basename(u)))}

Catalogs(urls, n) ==
    {c \in SeqsUpTo(UNION {{Stored(u, p) : p \in PathsOf(u)} : u \in urls}, n) :
        HasDistinctUrls(c)}

InitMerge ==
    /\ pc = "acquire" /\ run = 1 /\ exc = ""
    /\ favorites \in SeqsUpTo({Entry(u, w) : u \in MergeUrls, w \in 1..MaxWidth},
                              MaxIncoming)
    /\ gif_list \in {None} \cup {Some(c) : c \in Catalogs(MergeUrls, MaxStored)}
    /\ dataFile = None /\ dirExists = FALSE /\ files = <<>>
    /\ gifs = <<>> /\ i = 0 /\ requests = <<>>
    /\ before = None /\ incoming = None

NextMerge == MergeFavorites

SpecMerge == InitMerge /\ [][NextMerge]_vars

----------------------------------------------------------------------------
(* One run on one favourite whose URL is any short string of URL tokens *)

RestTokens == {"/", "a", ".gif", "?", "#"}

GeneratedUrls ==
    {Https(h, r) : h \in {TenorHost, ImgurHost, CdnHost},
                   r \in SeqsUpTo(RestTokens, MaxRest)}

InitUrl ==
    /\ pc = "init" /\ run = 1 /\ exc = ""
    /\ favorites \in {<<Entry(u, 1)>> : u \in GeneratedUrls}
    /\ dataFile = None /\ dirExists = FALSE /\ files = <<>>
    /\ gif_list = None /\ gifs = <<>> /\ i = 0 /\ requests = <<>>
    /\ before = None /\ incoming = None

NextUrl ==
    \/ Load
    \/ MergeFavorites
    \/ Deserialize
    \/ Download
    \/ Save

SpecUrl == InitUrl /\ [][NextUrl]_vars

----------------------------------------------------------------------------
(* One run on a data.json in the persisted format: every record has the    *)
(* fields width, height, src, url, format, path and refreshed_url          *)

Persisted(u, p, r) ==
    [width |-> 1, height |-> 1, src |-> "preview", url |-> u, format |-> "IMAGE",
     path |-> p, refreshed_url |-> r]

RefreshedOf(u) == {None, Some(u \o <<"&", "refreshed">>)}

PersistedRecords ==
    UNION {{Persisted(u, p, r) : p \in PathsOf(u), r \in RefreshedOf(u)} : u \in Urls}

PersistedCatalogs ==
    {c \in SeqsUpTo(PersistedRecords, MaxStored) : HasDistinctUrls(c)}

InitPersist ==
    /\ pc = "init" /\ run = 1 /\ exc = ""
    /\ favorites = <<>>
    /\ dataFile \in {Some(c) : c \in PersistedCatalogs}
    /\ dirExists = TRUE /\ files = <<>>
    /\ gif_list = None /\ gifs = <<>> /\ i = 0 /\ requests = <<>>
    /\ before = None /\ incoming = None

NextPersist ==
    \/ Load
    \/ NoFavorites
    \/ Deserialize
    \/ Download
    \/ Save

SpecPersist == InitPersist /\ [][NextPersist]_vars

----------------------------------------------------------------------------
(* Claims *)

UrlsOf(lst) == {lst[k].url : k \in 1..Len(lst)}

\* merge has been called and the state is the one it returned in
Merged == pc = "deserialize" /\ incoming # None

\* the catalog merge started from was empty or not loaded
StartedEmpty == before = None \/ before = Some(<<>>)

\* the subsequence of lst made of the first entry of each url
RECURSIVE FirstOccurrences(_)
FirstOccurrences(lst) ==
    IF lst = <<>> THEN <<>>
    ELSE LET front == SubSeq(lst, 1, Len(lst) - 1)
             last == lst[Len(lst)]
         IN  IF last.url \in UrlsOf(front)
             THEN FirstOccurrences(front)
             ELSE Append(FirstOccurrences(front), last)

\* the CDN-attachment domains, cdn.discordapp.com and media.discordapp.net
CdnAttachmentHosts == {CdnHost, <<"media", ".discordapp", ".net">>}

\* C1: whatever merge was called on and with, no two entries of the catalog
\* have the same url.
C1_UniqueUrls == gif_list # None => HasDistinctUrls(gif_list[1])

\* C2: merge on an empty or not yet loaded catalog yields the first
\* occurrence of each url of the incoming list, in the order of those first
\* occurrences.
C2_FirstSeen ==
    (Merged /\ StartedEmpty) => gif_list = Some(FirstOccurrences(incoming[1]))

\* C3: merge on a non-empty catalog C with the list L yields C, unchanged,
\* followed by the entries of L whose url is not in C, in L's order.
C3_AppendsAbsent ==
    (Merged /\ ~StartedEmpty) =>
        LET Absent(gif) == gif.url \notin UrlsOf(before[1])
        IN  gif_list = Some(before[1] \o SelectSeq(incoming[1], Absent))

C3_Witness ==
    /\ Merged /\ ~StartedEmpty
    /\ \E k \in 1..Len(before[1]) : before[1][k].path # None
    /\ \E k \in 1..Len(incoming[1]) : incoming[1][k].url \in UrlsOf(before[1])
    /\ \E j, k \in 1..Len(incoming[1]) :
          /\ j < k
          /\ incoming[1][j].url \notin UrlsOf(before[1])
          /\ incoming[1][k].url \notin UrlsOf(before[1])
    /\ Len(gif_list[1]) = Len(before[1]) + 2

TransferErrors == {"ConnectionError", "OSError"}

\* C4: a failed fetch or write in the download pass does not end the run:
\* the run goes on to the later entries and saves the catalog.
C4_TransferFailureDoesNotAbort == pc = "crashed" => exc \notin TransferErrors

\* the catalog a run started from is not empty and every entry of it has
\* been downloaded
AllDownloaded(cat) ==
    /\ cat # None /\ Len(cat[1]) > 0
    /\ \A k \in 1..Len(cat[1]) : GetPath(cat[1][k]) # None

\* a run whose catalog was all downloaded and whose favourites were all in it
RerunOfFinished ==
    /\ pc = "done" /\ incoming # None
    /\ AllDownloaded(before)
    /\ UrlsOf(incoming[1]) \subseteq UrlsOf(before[1])

\* download() is about to be called on gifs[i]
AtEntry == pc = "download" /\ i <= Len(gifs)

\* C5: download() on an entry whose path is set fetches nothing, creates no
\* file and leaves the entry as it is; on an entry without path whose URL is
\* a supported one it issues a request again; and a run over a catalog whose
\* entries all have a path, with favourites that are all in the catalog,
\* issues no request and saves the catalog it loaded.
C5_Idempotent ==
    /\ [](RerunOfFinished => (requests = <<>> /\ dataFile = before))
    /\ [][(AtEntry /\ gifs[i].path # None) =>
             (requests' = requests /\ files' = files /\ dirExists' = dirExists
              /\ gifs' = gifs)]_vars
    /\ [][(AtEntry /\ gifs[i].path = None /\ i' # i
           /\ (EndsWithGif(urlparse(gifs[i].url).path) \/ url_host(gifs[i]) = TenorHost))
          => Len(requests') > Len(requests)]_vars

C5_Witness ==
    /\ RerunOfFinished
    /\ run > 1
    /\ incoming[1] # <<>>
    /\ files # <<>>
    /\ dataFile = before

\* download() has been called on the only entry of the run
ActedOnFirst == Len(gifs) = 1 /\ (i > 1 \/ pc = "crashed")

\* C6: an entry without path whose host is not a CDN-attachment domain is
\* fetched as a plain file, from its URL without query and fragment, exactly
\* when the path of its URL ends in .gif; otherwise its page is fetched
\* exactly when its host is tenor.com; otherwise nothing is fetched and the
\* entry stays as it is.
C6_Classification ==
    (ActedOnFirst /\ url_host(gifs[1]) \notin CdnAttachmentHosts) =>
        LET comps == urlparse(gifs[1].url)
            stripped == <<comps.scheme, "://">> \o comps.netloc \o comps.path
        IN  IF EndsWithGif(comps.path)
            THEN requests # <<>> /\ requests[1] = Get(stripped, "_download_generic")
            ELSE IF comps.netloc = TenorHost
                 THEN requests # <<>> /\ requests[1].by = "_extract_tenor_url"
                 ELSE requests = <<>> /\ gifs[1].path = None

\* C7: no request goes to the URL of an entry whose host is a CDN-attachment
\* domain (entries carry no refreshed_url here, so every such entry is one
\* that needs a refresh).
C7_CdnNotFetchedFromOriginal ==
    \A k \in 1..Len(gifs), r \in 1..Len(requests) :
        url_host(gifs[k]) \in CdnAttachmentHosts =>
            requests[r].url \notin {gifs[k].url, sanitized_url(gifs[k])}

\* the entries the run had to refresh: CDN-attachment host, no path
NeedsRefresh ==
    LET gifs0 == deserialize_gifs(merge(before, incoming[1]))
    IN  {k \in 1..Len(gifs0) :
            url_host(gifs0[k]) \in CdnAttachmentHosts /\ gifs0[k].path = None}

\* C8: a run with N entries to refresh has issued ceil(N / 50) refresh
\* requests (POST) by the time it is done.
C8_RefreshBatches ==
    (pc = "done" /\ incoming # None) =>
        Cardinality({r \in 1..Len(requests) : requests[r].method = "POST"})
            = (Cardinality(NeedsRefresh) + 49) \div 50

\* C9: a step never changes or removes a file of downloads/; the file it
\* creates is the basename of the URL fetched if that name is unused, and
\* otherwise name-k.ext for the least k >= 1 that is unused; and when the
\* step sets the entry's path, it is the path of that file.
C9_CollisionSafe ==
    [][/\ \A n \in DOMAIN files : n \in DOMAIN files' /\ files'[n] = files[n]
       /\ files' # files =>
            LET new == CHOOSE n \in DOMAIN files' : n \notin DOMAIN files
                url == requests'[Len(requests')].url
                parts == splitext(basename(url))
                Candidate(k) ==
                    IF k = 0 THEN basename(url)
                    ELSE parts.name \o <<"-" \o ToString(k)>> \o parts.extension
                Used(k) == Exists(files, JoinDownloads(Candidate(k)))
            IN  /\ DOMAIN files' = DOMAIN files \cup {new}
                /\ \E k \in 0..(Cardinality(DOMAIN files) + 1) :
                      /\ new = Candidate(k)
                      /\ \A j \in 0..(k - 1) : Used(j)
                /\ gifs' # gifs =>
                      /\ gifs'[i].path = Some(JoinDownloads(new))
                      /\ files'[new] = url
      ]_vars

C9_Witness ==
    \E k \in 1..Len(gifs) :
        /\ gifs[k].path = Some(<<"downloads", "/", "a", "-2", ".gif">>)
        /\ files[<<"a", ".gif">>] = OldContent
        /\ files[<<"a", "-1", ".gif">>] = OldContent
        /\ files[<<"a", "-2", ".gif">>] = sanitized_url(gifs[k])

\* C10: the entries deserialized from a catalog in the persisted format
\* serialize back to that catalog, every field unchanged.
C10_RoundTrip ==
    (pc = "download" /\ i = 1 /\ requests = <<>>) => serialize_gifs(gifs) = dataFile

====
